---- MODULE Spec2Model ----
(***************************************************************************)
(* A model of dvc/logger.py: the level registry (addLoggingLevel), the     *)
(* record formatter (ColorFormatter.format), the handler                   *)
(* (LoggerHandler.emit / handleError), the verbosity flag (_is_verbose),   *)
(* the namespace gate (disable_other_loggers, set_loggers_level) and the   *)
(* composition entry point (setup).                                        *)
(*                                                                         *)
(* Text is a sequence of tokens; "" is the empty sequence and + is \o.     *)
(* Logger names are sequences of characters so that str.startswith is      *)
(* computed rather than assumed.                                           *)
(***************************************************************************)
EXTENDS Integers, Sequences, FiniteSets, TLC

VARIABLES
    nameToLevel,    \* logging._nameToLevel: level name -> number
    levelToName,    \* logging._levelToName: number -> level name
    moduleAttr,     \* upper-case attributes of the logging module (logging.DEBUG, logging.TRACE)
    loggerMethods,  \* methods of the logger class added per level: method name -> level it logs at
    moduleFuncs,    \* lower-case convenience functions of the logging module: name -> level
    loggers,        \* logging.root.manager.loggerDict: name -> [level, disabled, handlers]
    rootLevel,      \* level of the root logger, the parent of "dvc"
    nSetups,        \* number of calls of setup so far
    last            \* the last operation, its inputs and what it produced

vars == <<nameToLevel, levelToName, moduleAttr, loggerMethods, moduleFuncs,
          loggers, rootLevel, nSetups, last>>

(***************************************************************************)
(* Bounds of the model.                                                    *)
(***************************************************************************)
MaxSetups == 2

(***************************************************************************)
(* Severity levels.                                                        *)
(***************************************************************************)
NOTSET == 0
DEBUG == 10
INFO == 20
WARNING == 30
ERROR == 40
CRITICAL == 50
TraceOffset == 5

\* the value setup asks for: logging.DEBUG - 5
TraceRequested == DEBUG - TraceOffset

\* a level below TRACE, and a level between INFO and WARNING that has no name
SubTrace == TraceRequested - 2
Unnamed == INFO + TraceOffset
Notice == INFO + 2

(***************************************************************************)
(* Logger names, as character sequences.                                   *)
(***************************************************************************)
DvcName == <<"d", "v", "c">>
DvcObjectsName == <<"d", "v", "c", "_", "o", "b", "j", "e", "c", "t", "s">>
DvcDataName == <<"d", "v", "c", "_", "d", "a", "t", "a">>
AsyncioName == <<"a", "s", "y", "n", "c", "i", "o">>
AiohttpName == <<"a", "i", "o", "h", "t", "t", "p">>
DvcRepoName == <<"d", "v", "c", ".", "r", "e", "p", "o">>
DvcxName == <<"d", "v", "c", "x">>

\* names other parts of the process register with logging.getLogger
ForeignNames == {DvcRepoName, DvcxName, AsyncioName}

\* str.startswith
StartsWith(s, prefix) ==
    /\ Len(s) >= Len(prefix)
    /\ SubSeq(s, 1, Len(prefix)) = prefix

(***************************************************************************)
(* Function helpers.                                                       *)
(***************************************************************************)
\* d[k] = v, as a Python dict assignment
Put(d, k, v) == [x \in (DOMAIN d) \cup {k} |-> IF x = k THEN v ELSE d[x]]

\* setattr(obj, k, v) if not hasattr(obj, k)
PutIfAbsent(d, k, v) == IF k \in DOMAIN d THEN d ELSE Put(d, k, v)

(***************************************************************************)
(* addLoggingLevel                                                         *)
(***************************************************************************)
\* levelName.lower(), for the level names of the model
Lower(levelName) ==
    CASE levelName = "TRACE" -> "trace"
      [] levelName = "DEBUG" -> "debug"
      [] levelName = "NOTICE" -> "notice"
      [] OTHER -> levelName

\* the existing numeric level is adopted when logging.<levelName> is defined
AdoptedLevelNum(levelName, levelNum) ==
    IF levelName \in DOMAIN moduleAttr THEN moduleAttr[levelName] ELSE levelNum

\* logging.getLevelName(levelName) resolves to an int iff the name is registered
NameResolves(levelName) == levelName \in DOMAIN nameToLevel

\* addLoggingLevel without the adoption and without the "if not" guards
AddLoggingLevelOverwrite(levelName, levelNum) ==
    /\ nameToLevel' = Put(nameToLevel, levelName, levelNum)
    /\ levelToName' = Put(levelToName, levelNum, levelName)
    /\ moduleAttr' = Put(moduleAttr, levelName, levelNum)
    /\ loggerMethods' = Put(loggerMethods, Lower(levelName), levelNum)
    /\ moduleFuncs' = Put(moduleFuncs, Lower(levelName), levelNum)

\* the body of addLoggingLevel(levelName, levelNum), methodName left at None
AddLoggingLevelBody(levelName, levelNum) ==
    LET methodName == Lower(levelName)
        num == AdoptedLevelNum(levelName, levelNum)
    IN /\ nameToLevel' = IF NameResolves(levelName) THEN nameToLevel
                         ELSE Put(nameToLevel, levelName, num)
       /\ levelToName' = IF NameResolves(levelName) THEN levelToName
                         ELSE Put(levelToName, num, levelName)
       /\ moduleAttr' = PutIfAbsent(moduleAttr, levelName, num)
       /\ loggerMethods' = PutIfAbsent(loggerMethods, methodName, num)
       /\ moduleFuncs' = PutIfAbsent(moduleFuncs, methodName, num)

\* level names and numbers callers register
RegNames == {"TRACE", "DEBUG", "NOTICE"}
RegNums == {TraceRequested, SubTrace, Notice}

AddLoggingLevel(levelName, levelNum) ==
    /\ AddLoggingLevelBody(levelName, levelNum)
    /\ last' = [op |-> "addLoggingLevel", name |-> levelName, requested |-> levelNum,
                existed |-> levelName \in DOMAIN nameToLevel,
                before |-> IF levelName \in DOMAIN nameToLevel
                           THEN nameToLevel[levelName] ELSE levelNum]
    /\ UNCHANGED <<loggers, rootLevel, nSetups>>

(***************************************************************************)
(* Loggers and the verbosity flag                                          *)
(***************************************************************************)
\* a logger as logging.getLogger creates it
NewLogger == [level |-> NOTSET, disabled |-> FALSE, handlers |-> <<>>]

\* logging.getLogger(name) on the dictionary d: creates the logger if missing
GetLoggerIn(d, name) == PutIfAbsent(d, name, NewLogger)

\* logging.getLogger(name).setLevel(level) on the dictionary d
SetLevelIn(d, name, level) ==
    LET d1 == GetLoggerIn(d, name)
    IN [d1 EXCEPT ![name].level = level]

\* Logger.getEffectiveLevel of "dvc": its own level, else the root logger's
EffectiveLevel ==
    IF DvcName \in DOMAIN loggers /\ loggers[DvcName].level # NOTSET
    THEN loggers[DvcName].level
    ELSE rootLevel

IsVerboseNoFloor == EffectiveLevel <= DEBUG
\* _is_verbose()
IsVerbose == NOTSET < EffectiveLevel /\ EffectiveLevel <= DEBUG

(***************************************************************************)
(* ColorFormatter.format                                                   *)
(***************************************************************************)
NL == "\n"

\* ColorFormatter.color_codes
ColorCodes ==
    [n \in {"TRACE", "DEBUG", "WARNING", "ERROR", "CRITICAL"} |->
        CASE n = "TRACE" -> "GREEN"
          [] n = "DEBUG" -> "BLUE"
          [] n = "WARNING" -> "YELLOW"
          [] n = "ERROR" -> "RED"
          [] n = "CRITICAL" -> "RED"]

\* ColorFormatter.reset
ResetCode == "RESET"

\* logging.getLevelName(levelno), which names a record at its creation
GetLevelName(levelno) ==
    IF levelno \in DOMAIN levelToName THEN levelToName[levelno] ELSE "Level N"

\* msg % args: each %s of the template takes the next argument
RECURSIVE Interpolate(_, _)
Interpolate(template, args) ==
    IF template = <<>> THEN <<>>
    ELSE IF Head(template) = "%s" /\ args # <<>>
         THEN Head(args) \o Interpolate(Tail(template), Tail(args))
         ELSE <<Head(template)>> \o Interpolate(Tail(template), args)

\* record.getMessage(): the template applied to its arguments, if any
GetMessage(record) ==
    IF record.args # <<>> THEN Interpolate(record.msg, record.args) ELSE record.msg

\* Formatter.formatMessage with the default "%(message)s" style
FormatMessage(message) == message

\* _iter_causes: str(exc), then str of each explicit cause in turn
RECURSIVE IterCauses(_)
IterCauses(chain) ==
    IF chain = <<>> THEN <<>>
    ELSE <<Head(chain)>> \o IterCauses(Tail(chain))

\* ": ".join(strings)
RECURSIVE JoinColon(_)
JoinColon(strings) ==
    IF strings = <<>> THEN <<>>
    ELSE IF Len(strings) = 1 THEN Head(strings)
    ELSE Head(strings) \o <<": ">> \o JoinColon(Tail(strings))

\* if msg[-1:] != "\n": msg = msg + "\n"
EnsureNewline(msg) ==
    IF msg # <<>> /\ msg[Len(msg)] = NL THEN msg ELSE msg \o <<NL>>

\* Formatter.formatTime, formatException and formatStack
FormatTime == <<"asctime">>
FormatException(ei) == <<"Traceback">>
FormatStack(stack_info) == stack_info

Returned(text) == [raised |-> "none", text |-> text]
Raised(exc) == [raised |-> exc, text |-> <<>>]

\* the early return for INFO records
IsPlainLevelAbove(record) == record.levelno > INFO
IsPlainLevel(record) == record.levelno = INFO

\* the lookup self.color_codes[level]
ColorOf(level) == ColorCodes[level]
HasColor(level) == level \in DOMAIN ColorCodes

\* ColorFormatter.format(record), under the formatter's log_colors and the
\* verbosity flag it reads
Format(record, log_colors, verbose) ==
    LET msg0 == FormatMessage(GetMessage(record))
        ei == record.exc_info
        cause == IF ei # <<>> /\ ~record.tb_only
                 THEN JoinColon(IterCauses(ei[1].causes)) ELSE <<>>
        sep == IF msg0 # <<>> /\ cause # <<>> THEN <<" - ">> ELSE <<>>
        msg1 == IF ei # <<>> THEN msg0 \o sep \o cause ELSE msg0
        asctime == IF verbose THEN FormatTime ELSE <<>>
        exc_text == IF verbose /\ ei # <<>> /\ record.exc_text = <<>>
                    THEN FormatException(ei) ELSE record.exc_text
        msg2 == IF verbose /\ exc_text # <<>>
                THEN EnsureNewline(msg1) \o exc_text \o <<NL>> ELSE msg1
        msg3 == IF verbose /\ record.stack_info # <<>>
                THEN EnsureNewline(msg2) \o FormatStack(record.stack_info) \o <<NL>>
                ELSE msg2
        level == record.levelname
        space == IF asctime # <<>> THEN <<" ">> ELSE <<>>
    IN IF IsPlainLevel(record) THEN Returned(msg0)
       ELSE IF ~log_colors
            THEN Returned(asctime \o space \o <<level>> \o <<": ">> \o msg3)
       ELSE IF ~HasColor(level) THEN Raised("KeyError")
       ELSE LET color == ColorOf(level)
                casctime == IF asctime # <<>>
                            THEN <<color>> \o asctime \o <<ResetCode>> ELSE <<>>
                clevel == <<color, level, ResetCode>>
            IN Returned(casctime \o space \o clevel \o <<": ">> \o msg3)

(***************************************************************************)
(* Handlers: exclude_filter, LoggerHandler.emit, handleError               *)
(***************************************************************************)
\* exclude_filter(level)(record)
ExcludeFilterInclusive(level, record) == record.levelno <= level
ExcludeFilter(level, record) == record.levelno < level

\* Logger.callHandlers hands a record to a handler at or above the handler's
\* level, and Handler.handle emits it when every filter of the handler passes
HandlerAccepts(h, record) ==
    /\ record.levelno >= h.level
    /\ \A i \in 1..Len(h.filters) : ExcludeFilter(h.filters[i], record)

\* the failures the except clause of emit re-raises unchanged
Propagated == {"BrokenPipeError", "RecursionError"}

\* an emit that ended: outcome is "returned" or the name of the exception
\* raised, and raised names the exception the try block met ("none" if none)
EmitResult(h, outcome, raised, steps, written, about) ==
    [handler |-> h.id, stream |-> h.stream, outcome |-> outcome, raised |-> raised,
     steps |-> steps, written |-> written, about |-> about]

\* LoggerHandler.handleError: the base class reports on sys.stderr, then the
\* record is raised as a LoggingException
HandleErrorSwallows(h, record, exc, steps, written) ==
    EmitResult(h, "returned", exc, steps \o <<"handleError">>, written, <<>>)
HandleError(h, record, exc, steps, written) ==
    EmitResult(h, "LoggingException", exc, steps \o <<"handleError">>, written,
               <<[levelno |-> record.levelno, msg |-> record.msg]>>)

\* the two except clauses of emit, for an exception exc raised in the try block
Except(h, record, exc, steps, written) ==
    IF exc \in Propagated
    THEN EmitResult(h, exc, exc, steps, written, <<>>)
    ELSE HandleError(h, record, exc, steps, written)

\* msg = self.format(record); Tqdm.write(msg, ...); self.flush()
\* fault names the step, if any, at which the environment raises, and what
NormalPath(h, record, fault, steps) ==
    LET f == Format(record, h.log_colors, IsVerbose)
    IN IF fault.stage = "format"
       THEN Except(h, record, fault.kind, steps \o <<"format">>, 0)
       ELSE IF f.raised # "none"
       THEN Except(h, record, f.raised, steps \o <<"format">>, 0)
       ELSE IF fault.stage = "write"
       THEN Except(h, record, fault.kind, steps \o <<"format", "write">>, 0)
       ELSE IF fault.stage = "flush"
       THEN Except(h, record, fault.kind, steps \o <<"format", "write", "flush">>, 1)
       ELSE EmitResult(h, "returned", "none", steps \o <<"format", "write", "flush">>,
                        1, <<>>)

\* hasattr(exc, "__pretty_exc__") for the exception of the record
HasPretty(record) ==
    record.exc_info # <<>> /\ record.exc_info[1].pretty # "absent"

\* the inner try: the delegate was called and returned, and not _is_verbose()
HandledByDelegateAlways(record) == HasPretty(record) /\ record.exc_info[1].pretty = "ok"
HandledByDelegate(record) ==
    HasPretty(record) /\ record.exc_info[1].pretty = "ok" /\ ~IsVerbose

\* LoggerHandler.emit(record)
Emit(h, record, fault) ==
    LET steps == IF HasPretty(record) THEN <<"delegate">> ELSE <<>>
    IN IF HandledByDelegate(record)
       THEN EmitResult(h, "returned", "none", steps, 0, <<>>)
       ELSE NormalPath(h, record, fault, steps)

\* Logger.callHandlers over the handlers of "dvc": each accepting handler
\* emits in turn, and an exception raised by one ends the walk
RECURSIVE CallHandlers(_, _, _)
CallHandlers(handlers, record, fault) ==
    IF handlers = <<>> THEN <<>>
    ELSE LET h == Head(handlers)
         IN IF ~HandlerAccepts(h, record)
            THEN CallHandlers(Tail(handlers), record, fault)
            ELSE LET e == Emit(h, record, fault)
                 IN IF e.outcome # "returned" THEN <<e>>
                    ELSE <<e>> \o CallHandlers(Tail(handlers), record, fault)

(***************************************************************************)
(* setup, set_loggers_level, disable_other_loggers                         *)
(***************************************************************************)
\* console_info, console_debug, console_trace, console_errors of the k-th setup
NewHandlersNoErrors(k, formatter, err_formatter, trace) ==
    << [id |-> <<k, 1>>, stream |-> "stdout", level |-> INFO,
        filters |-> <<WARNING>>, log_colors |-> formatter],
       [id |-> <<k, 2>>, stream |-> "stdout", level |-> DEBUG,
        filters |-> <<INFO>>, log_colors |-> formatter],
       [id |-> <<k, 3>>, stream |-> "stdout", level |-> trace,
        filters |-> <<DEBUG>>, log_colors |-> formatter] >>
NewHandlers(k, formatter, err_formatter, trace) ==
    << [id |-> <<k, 1>>, stream |-> "stdout", level |-> INFO,
        filters |-> <<WARNING>>, log_colors |-> formatter],
       [id |-> <<k, 2>>, stream |-> "stdout", level |-> DEBUG,
        filters |-> <<INFO>>, log_colors |-> formatter],
       [id |-> <<k, 3>>, stream |-> "stdout", level |-> trace,
        filters |-> <<DEBUG>>, log_colors |-> formatter],
       [id |-> <<k, 4>>, stream |-> "stderr", level |-> WARNING,
        filters |-> <<>>, log_colors |-> err_formatter] >>

\* Logger.addHandler: appended unless this very handler is already there
AddHandler(handlers, h) ==
    IF \E i \in 1..Len(handlers) : handlers[i].id = h.id
    THEN handlers ELSE Append(handlers, h)

RECURSIVE AddHandlers(_, _)
AddHandlers(handlers, new) ==
    IF new = <<>> THEN handlers
    ELSE AddHandlers(AddHandler(handlers, Head(new)), Tail(new))

\* one turn of the loop of setup over the family: setLevel, then addHandler x 4
ConfigureLogger(d, name, level, new) ==
    LET d1 == SetLevelIn(d, name, level)
    IN [d1 EXCEPT ![name].handlers = AddHandlers(@, new)]

\* the guard of the last block of setup
QuietsWhenNotVerbose(level) == ~(NOTSET < level /\ level <= DEBUG)
Quiets(level) == level >= DEBUG

\* asyncio and aiohttp are set to CRITICAL when the guard holds
QuietNoisy(d, level) ==
    IF Quiets(level)
    THEN SetLevelIn(SetLevelIn(d, AsyncioName, CRITICAL), AiohttpName, CRITICAL)
    ELSE d

\* setup(level, log_colors), with what isatty() answers for the two streams
Setup(level, log_colors, out_tty, err_tty) ==
    /\ nSetups < MaxSetups
    /\ AddLoggingLevelBody("TRACE", TraceRequested)
    /\ LET k == nSetups + 1
           new == NewHandlers(k, log_colors /\ out_tty, log_colors /\ err_tty,
                              moduleAttr'["TRACE"])
           d1 == ConfigureLogger(loggers, DvcName, level, new)
           d2 == ConfigureLogger(d1, DvcObjectsName, level, new)
           d3 == ConfigureLogger(d2, DvcDataName, level, new)
       IN loggers' = QuietNoisy(d3, level)
    /\ nSetups' = nSetups + 1
    /\ last' = [op |-> "setup", level |-> level]
    /\ UNCHANGED rootLevel

\* set_loggers_level(level)
SetLoggersLevel(level) ==
    /\ loggers' = SetLevelIn(SetLevelIn(SetLevelIn(loggers, DvcName, level),
                                        DvcObjectsName, level), DvcDataName, level)
    /\ last' = [op |-> "set_loggers_level", level |-> level]
    /\ UNCHANGED <<nameToLevel, levelToName, moduleAttr, loggerMethods, moduleFuncs,
                   rootLevel, nSetups>>

\* the test of disable_other_loggers on a logger name
IsForeignNoDot(logger_name) ==
    logger_name # DvcName /\ ~StartsWith(logger_name, DvcName)
IsForeign(logger_name) ==
    logger_name # DvcName /\ ~StartsWith(logger_name, DvcName \o <<".">>)

\* disable_other_loggers()
DisableOtherLoggers ==
    /\ loggers' = [n \in DOMAIN loggers |->
                      IF IsForeign(n) THEN [loggers[n] EXCEPT !.disabled = TRUE]
                      ELSE loggers[n]]
    /\ last' = [op |-> "disable_other_loggers", before |-> loggers]
    /\ UNCHANGED <<nameToLevel, levelToName, moduleAttr, loggerMethods, moduleFuncs,
                   rootLevel, nSetups>>

\* logging.getLogger(name), called elsewhere in the process
GetLogger(name) ==
    /\ name \notin DOMAIN loggers
    /\ loggers' = GetLoggerIn(loggers, name)
    /\ last' = [op |-> "getLogger", name |-> name]
    /\ UNCHANGED <<nameToLevel, levelToName, moduleAttr, loggerMethods, moduleFuncs,
                   rootLevel, nSetups>>

(***************************************************************************)
(* Records and the operations that produce them                            *)
(***************************************************************************)
\* a LogRecord of logger "dvc"; levelname is fixed when the record is made
MakeRecord(levelno, msg, args, exc_info, tb_only, exc_text, stack_info) ==
    [levelno |-> levelno, levelname |-> GetLevelName(levelno), msg |-> msg,
     args |-> args, exc_info |-> exc_info, tb_only |-> tb_only,
     exc_text |-> exc_text, stack_info |-> stack_info]

\* Logger.isEnabledFor on "dvc" (manager.disable is 0, so a level of 0 or less
\* is never enabled)
IsEnabledFor(d, levelno) ==
    /\ ~d[DvcName].disabled
    /\ levelno > NOTSET
    /\ levelno >= EffectiveLevel

\* what the environment may raise while a record is formatted, written or flushed
NoFault == [stage |-> "none", kind |-> "none"]
Faults ==
    {NoFault} \cup
    [stage : {"format", "write", "flush"},
     kind : {"BrokenPipeError", "RecursionError", "OSError"}]

\* what the __pretty_exc__ of an exception does when called, if it has one
PrettyKinds == {"absent", "ok", "ValueError", "BrokenPipeError", "RecursionError"}

\* logging.getLogger("dvc").log(levelno, "m", exc_info=...)
Log(levelno, exc_info, fault) ==
    LET d == GetLoggerIn(loggers, DvcName)
        record == MakeRecord(levelno, <<"m">>, <<>>, exc_info, FALSE, <<>>, <<>>)
        enabled == IsEnabledFor(d, levelno)
    IN /\ loggers' = d
       /\ last' = [op |-> "log", n |-> nSetups, levelno |-> levelno, msg |-> record.msg,
                   pretty |-> IF exc_info = <<>> THEN "absent" ELSE exc_info[1].pretty,
                   fault |-> fault, enabled |-> enabled, verbose |-> IsVerbose,
                   emits |-> IF enabled
                             THEN CallHandlers(d[DvcName].handlers, record, fault)
                             ELSE <<>>]
       /\ UNCHANGED <<nameToLevel, levelToName, moduleAttr, loggerMethods, moduleFuncs,
                      rootLevel, nSetups>>

\* formatter.format(record) for a formatter with the given log_colors
FormatRecord(record, log_colors) ==
    /\ last' = [op |-> "format", record |-> record, log_colors |-> log_colors,
                verbose |-> IsVerbose, result |-> Format(record, log_colors, IsVerbose)]
    /\ UNCHANGED <<nameToLevel, levelToName, moduleAttr, loggerMethods, moduleFuncs,
                   loggers, rootLevel, nSetups>>

(***************************************************************************)
(* Initial state: the logging module as imported                           *)
(***************************************************************************)
BuiltinLevels ==
    [n \in {"CRITICAL", "ERROR", "WARNING", "INFO", "DEBUG", "NOTSET"} |->
        CASE n = "CRITICAL" -> CRITICAL
          [] n = "ERROR" -> ERROR
          [] n = "WARNING" -> WARNING
          [] n = "INFO" -> INFO
          [] n = "DEBUG" -> DEBUG
          [] n = "NOTSET" -> NOTSET]

BuiltinMethods ==
    [n \in {"critical", "error", "warning", "info", "debug"} |->
        CASE n = "critical" -> CRITICAL
          [] n = "error" -> ERROR
          [] n = "warning" -> WARNING
          [] n = "info" -> INFO
          [] n = "debug" -> DEBUG]

\* the levels the host application may have given the root logger
RootLevels == {NOTSET, WARNING}

Init ==
    /\ nameToLevel = BuiltinLevels
    /\ levelToName = [v \in {BuiltinLevels[n] : n \in DOMAIN BuiltinLevels} |->
                         CHOOSE n \in DOMAIN BuiltinLevels : BuiltinLevels[n] = v]
    /\ moduleAttr = BuiltinLevels
    /\ loggerMethods = BuiltinMethods
    /\ moduleFuncs = BuiltinMethods
    /\ loggers = [n \in {} |-> NewLogger]
    /\ rootLevel \in RootLevels
    /\ nSetups = 0
    /\ last = [op |-> "init"]

(***************************************************************************)
(* Specifications                                                          *)
(***************************************************************************)
\* levels given to setup and set_loggers_level
ConfigLevels == {NOTSET, SubTrace, DEBUG, INFO}

\* levels of the records logged
RecordLevels == {SubTrace, TraceRequested, DEBUG, INFO, Unnamed, WARNING}

\* an exception with one cause string, and what its __pretty_exc__ does
Exc(p) == <<[causes |-> <<(<<"A">>)>>, pretty |-> p]>>

\* the exc_info of a logged record: none, or an exception
LoggedExcInfos == {<<>>} \cup {Exc(p) : p \in PrettyKinds}

\* the records logged and the failures met: every record without a failure
\* of the environment, and WARNING records with each failure
LogInputs ==
    (RecordLevels \X LoggedExcInfos \X {NoFault})
    \cup ({WARNING} \X {<<>>, Exc("ok"), Exc("ValueError")} \X Faults)

SetupStep ==
    \E level \in ConfigLevels, log_colors \in BOOLEAN, tty \in BOOLEAN :
        Setup(level, log_colors, tty, tty)

LogStep == \E in \in LogInputs : Log(in[1], in[2], in[3])

Next == SetupStep \/ LogStep

Spec == Init /\ [][Next]_vars

\* The level registry: addLoggingLevel called by setup and by other callers.
AddLoggingLevelStep ==
    \E levelName \in RegNames, levelNum \in RegNums : AddLoggingLevel(levelName, levelNum)

SetupDefault == Setup(INFO, TRUE, TRUE, TRUE)

NextLevels == AddLoggingLevelStep \/ SetupDefault

SpecLevels == Init /\ [][NextLevels]_vars

\* The namespace gate: loggers registered by the process, then suppressed.
GetLoggerStep == \E name \in ForeignNames \cup {DvcName} : GetLogger(name)

SetLoggersLevelStep == \E level \in {DEBUG, INFO} : SetLoggersLevel(level)

SetupGate == \E level \in {SubTrace, INFO} : Setup(level, TRUE, TRUE, TRUE)

NextGate == GetLoggerStep \/ DisableOtherLoggers \/ SetLoggersLevelStep \/ SetupGate

SpecGate == Init /\ [][NextGate]_vars

\* The formatter: setup is called once, as at startup, and the formatters it
\* built format records of every shape, under either verbosity.
FormatLevels == {TraceRequested, INFO, Unnamed, WARNING}

\* message templates with their arguments
FormatMessages ==
    { <<(<<>>), (<<>>)>>,
      <<(<<"m">>), (<<>>)>>,
      <<(<<"m", NL>>), (<<>>)>>,
      <<(<<"disk ", "%s">>), <<(<<"low">>)>> >> }

\* exc_info: none, or an exception and the strings of its causes
FormatExcInfos ==
    { <<>>,
      <<[causes |-> <<(<<"A">>)>>, pretty |-> "absent"]>>,
      <<[causes |-> <<(<<"A">>), (<<"B">>), (<<"C">>)>>, pretty |-> "absent"]>> }

SetupOnce ==
    /\ nSetups = 0
    /\ \E log_colors \in BOOLEAN, out_tty \in BOOLEAN, err_tty \in BOOLEAN :
          Setup(INFO, log_colors, out_tty, err_tty)

\* the log_colors of the formatters the handlers of "dvc" hold
FormatterColors ==
    IF DvcName \in DOMAIN loggers
    THEN {loggers[DvcName].handlers[i].log_colors :
              i \in 1..Len(loggers[DvcName].handlers)}
    ELSE {}

FormatStep ==
    \E levelno \in FormatLevels, m \in FormatMessages, exc_info \in FormatExcInfos,
       tb_only \in BOOLEAN, stack_info \in {<<>>, <<"Stack">>},
       log_colors \in FormatterColors :
        FormatRecord(MakeRecord(levelno, m[1], m[2], exc_info, tb_only, <<>>, stack_info),
                     log_colors)

NextFormat == SetupOnce \/ SetLoggersLevelStep \/ FormatStep

SpecFormat == Init /\ [][NextFormat]_vars

(***************************************************************************)
(* Properties                                                              *)
(***************************************************************************)
\* the handlers "dvc" held when the last record was logged
HandlersAtLog ==
    LET hs == loggers[DvcName].handlers
    IN {hs[i] : i \in {j \in 1..Len(hs) : hs[j].id[1] <= last.n}}

EmitsOfLast == {last.emits[i] : i \in 1..Len(last.emits)}

AllReturned == \A e \in EmitsOfLast : e.outcome = "returned"

\* minimum <= L and (no maximum or L < maximum)
InRange(h, L) == h.level <= L /\ (h.filters = <<>> \/ L < h.filters[1])

\* C1: the handlers of "dvc" are the four bindings stdout [INFO, WARNING),
\* stdout [DEBUG, INFO), stdout [TRACE, DEBUG) and stderr [WARNING, none); a
\* record that passes the logger is emitted only by bindings whose range holds
\* its level, and by every such binding when no emit raises; a WARNING record
\* reaches the stderr binding and no stdout binding, and a DEBUG record never
\* reaches the stderr binding.
C1_RoutingByRange ==
    (last.op = "log" /\ last.enabled) =>
        /\ \A h \in HandlersAtLog :
              <<h.stream, h.level, h.filters>> \in
                  { <<"stdout", INFO, <<WARNING>> >>, <<"stdout", DEBUG, <<INFO>> >>,
                    <<"stdout", moduleAttr["TRACE"], <<DEBUG>> >>,
                    <<"stderr", WARNING, <<>> >> }
        /\ \A e \in EmitsOfLast :
              \E h \in HandlersAtLog : h.id = e.handler /\ InRange(h, last.levelno)
        /\ AllReturned =>
              \A h \in HandlersAtLog :
                  InRange(h, last.levelno) => \E e \in EmitsOfLast : e.handler = h.id
        /\ last.levelno = WARNING =>
              /\ \A e \in EmitsOfLast : e.stream = "stderr"
              /\ last.n >= 1 => last.emits # <<>>
        /\ last.levelno = DEBUG => \A e \in EmitsOfLast : e.stream # "stderr"

C1_Witness ==
    /\ last.op = "log" /\ last.enabled /\ last.levelno = WARNING /\ last.n = 2
    /\ Len(last.emits) = 2 /\ AllReturned
    /\ \A e \in EmitsOfLast : e.stream = "stderr"

\* C3: in every emit, a BrokenPipeError or RecursionError met while formatting,
\* writing or flushing leaves emit as that same exception, without handleError;
\* any other exception met there leaves emit as a LoggingException that carries
\* the record; an emit returns only if it met no exception; and the walk over
\* the handlers visits no handler twice and ends at the first emit that raises.
C3_EmitFailures ==
    last.op = "log" =>
        /\ \A e \in EmitsOfLast :
              /\ e.raised \in Propagated =>
                    e.outcome = e.raised /\ ~\E i \in 1..Len(e.steps) : e.steps[i] = "handleError"
              /\ (e.raised # "none" /\ e.raised \notin Propagated) =>
                    /\ e.outcome = "LoggingException"
                    /\ e.about = <<[levelno |-> last.levelno, msg |-> last.msg]>>
              /\ e.outcome = "returned" => e.raised = "none"
              /\ (last.fault.stage # "none" /\ \E i \in 1..Len(e.steps) : e.steps[i] = "format") =>
                    e.outcome # "returned"
              /\ (last.fault.stage = "format" /\ \E i \in 1..Len(e.steps) : e.steps[i] = "format") =>
                    e.raised = last.fault.kind
        /\ \A i, j \in 1..Len(last.emits) :
              i # j => last.emits[i].handler # last.emits[j].handler
        /\ \A i \in 1..Len(last.emits) :
              last.emits[i].outcome # "returned" => i = Len(last.emits)

C3_Witness ==
    /\ last.op = "log" /\ last.n = 2 /\ last.fault = [stage |-> "flush", kind |-> "OSError"]
    /\ Len(last.emits) = 1
    /\ last.emits[1].outcome = "LoggingException"
    /\ last.emits[1].written = 1

\* C4: for a record whose exception has __pretty_exc__, every emit calls the
\* delegate first; when the delegate returned and the process is not verbose
\* the emit returns having formatted and written nothing; when the delegate
\* raised (a BrokenPipeError or RecursionError included) or the process is
\* verbose the emit goes on to format, write and flush, and unless one of
\* those steps fails it returns with the record written.
C4_PrettyDelegate ==
    (last.op = "log" /\ last.pretty # "absent") =>
        \A e \in EmitsOfLast :
            /\ e.steps # <<>> /\ e.steps[1] = "delegate"
            /\ (last.pretty = "ok" /\ ~last.verbose) =>
                  e.steps = <<"delegate">> /\ e.outcome = "returned" /\ e.written = 0
            /\ (last.pretty # "ok" \/ last.verbose) =>
                  /\ Len(e.steps) >= 2 /\ e.steps[2] = "format"
                  /\ e.raised \in {"none", "KeyError", last.fault.kind}
                  /\ e.raised = "none" =>
                        /\ e.steps = <<"delegate", "format", "write", "flush">>
                        /\ e.outcome = "returned" /\ e.written = 1

C4_Witness ==
    /\ last.op = "log" /\ last.pretty = "BrokenPipeError" /\ ~last.verbose
    /\ last.fault = NoFault /\ last.emits # <<>>
    /\ \A e \in EmitsOfLast :
          e.steps = <<"delegate", "format", "write", "flush">> /\ e.outcome = "returned"

\* the effective level of "dvc", read off the state
DvcOwnLevel == IF DvcName \in DOMAIN loggers THEN loggers[DvcName].level ELSE NOTSET
DvcEffective == IF DvcOwnLevel # NOTSET THEN DvcOwnLevel ELSE rootLevel

\* C8 as stated: the verbosity flag is true iff the effective level of "dvc"
\* is at or below DEBUG, an effective level of NOTSET included.
C8_AtOrBelowDebug == IsVerbose <=> DvcEffective <= DEBUG

\* C8, amended: the verbosity flag is true iff the effective level of "dvc" is
\* above NOTSET and at or below DEBUG.
C8_AboveNotsetAtOrBelowDebug ==
    IsVerbose <=> (NOTSET < DvcEffective /\ DvcEffective <= DEBUG)

C8_Witness ==
    /\ nSetups >= 1 /\ last.op = "setup" /\ last.level = NOTSET
    /\ DvcEffective = NOTSET /\ ~IsVerbose

\* the level of a logger, NOTSET while it is not registered
LevelOf(name) == IF name \in DOMAIN loggers THEN loggers[name].level ELSE NOTSET
Quieted == LevelOf(AsyncioName) = CRITICAL /\ LevelOf(AiohttpName) = CRITICAL
NoisyUnchanged ==
    /\ LevelOf(AsyncioName)' = LevelOf(AsyncioName)
    /\ LevelOf(AiohttpName)' = LevelOf(AiohttpName)

\* C9 as stated: a call of setup sets asyncio and aiohttp to CRITICAL exactly
\* when the process is not verbose after it, and leaves their levels alone
\* when it is.
C9_QuietIffNotVerbose ==
    [][nSetups' = nSetups + 1 =>
          IF ~IsVerbose' THEN Quieted' ELSE NoisyUnchanged]_vars

\* C9, amended: a call of setup(level) sets asyncio and aiohttp to CRITICAL
\* exactly when level >= DEBUG, and leaves their levels alone when level < DEBUG.
C9_QuietIffLevelAtLeastDebug ==
    [][nSetups' = nSetups + 1 =>
          IF last'.level >= DEBUG THEN Quieted' ELSE NoisyUnchanged]_vars

C9_Witness ==
    /\ last.op = "setup" /\ last.level = DEBUG /\ IsVerbose /\ Quieted

\* the number of times the last record was written
RECURSIVE SumWritten(_)
SumWritten(emits) ==
    IF emits = <<>> THEN 0 ELSE Head(emits).written + SumWritten(Tail(emits))

HandlerCountIsFourTimesSetups ==
    nSetups >= 1 => Len(loggers[DvcName].handlers) = 4 * nSetups

InDvcNamespace(name) ==
    \/ name = <<"d", "v", "c">>
    \/ (Len(name) >= 4 /\ <<name[1], name[2], name[3], name[4]>> = <<"d", "v", "c", ".">>)

\* C7: after disable_other_loggers every registered logger outside the "dvc"
\* namespace is disabled and every logger inside it keeps the state it had.
C7_ForeignLoggersDisabled ==
    last.op = "disable_other_loggers" =>
        \A name \in DOMAIN last.before :
            IF InDvcNamespace(name)
            THEN loggers[name].disabled = last.before[name].disabled
            ELSE loggers[name].disabled

C7_Witness ==
    /\ last.op = "disable_other_loggers"
    /\ {DvcName, DvcRepoName, DvcxName, DvcObjectsName} \subseteq DOMAIN loggers
    /\ ~loggers[DvcName].disabled /\ ~loggers[DvcRepoName].disabled
    /\ loggers[DvcxName].disabled /\ loggers[DvcObjectsName].disabled
    /\ ~last.before[DvcxName].disabled

\* what the formatter adds around a message
Decorations ==
    {"asctime", " ", ": ", " - ", "Traceback", "Stack", ResetCode, "A", "B", "C"}
    \cup {ColorCodes[n] : n \in DOMAIN ColorCodes}
    \cup {levelToName[v] : v \in DOMAIN levelToName} \cup {"Level N"}

\* the template with each %s replaced by the next argument, left to right
Rendered(record) ==
    IF record.msg = <<"disk ", "%s">> /\ Len(record.args) = 1
    THEN <<"disk ">> \o record.args[1]
    ELSE record.msg

\* C2: for an INFO record format returns the rendered message and nothing
\* else, whatever the verbosity, log_colors, exc_info, tb_only and stack_info.
C2_InfoIsPlain ==
    (last.op = "format" /\ last.record.levelno = INFO) =>
        /\ last.result.raised = "none"
        /\ last.result.text = Rendered(last.record)
        /\ \A i \in 1..Len(last.result.text) : last.result.text[i] \notin Decorations

C2_Witness ==
    /\ last.op = "format" /\ last.record.levelno = INFO
    /\ last.verbose /\ last.log_colors /\ last.record.tb_only
    /\ last.record.exc_info # <<>> /\ last.record.stack_info # <<>>
    /\ last.result.text = <<"disk ", "low">>

\* C6: format returns a string for every record and never raises.
C6_FormatIsTotal == last.op = "format" => last.result.raised = "none"

====
